---- MODULE Spec2Model ----
(***************************************************************************)
(* Nano-Navigator service worker (src/nano-navigator/service_worker.js).   *)
(*                                                                         *)
(* The model covers the background dispatcher: the process-wide credential *)
(* GEMINI_API_KEY and its persistence in chrome.storage.local, the menu    *)
(* and message handlers that start an AI task, the retry loop of           *)
(* executeCloudAiTask, and the result / processing modals the handlers     *)
(* inject into the originating tab.                                        *)
(*                                                                         *)
(* Strings that the code builds by concatenation are sequences of string   *)
(* pieces, so that a prefix, a template parameter or a trim is visible.    *)
(* Selected text and modal input are sequences of one-character strings.   *)
(***************************************************************************)
EXTENDS Integers, Sequences, FiniteSets, TLC

\* ------------------------------------------------------------------ bounds
\* Number of executeCloudAiTask invocations a behaviour may start, under
\* Spec / SpecFair, under SpecCred, under SpecUI and under SpecSan.
MaxInv == 2
MaxCredInv == 1
MaxUIInv == 1
MaxSanInv == 1
\* Number of chrome.storage.local calls that may be pending at once.
MaxPending == 2
\* Length of a selected text under SpecSan.
MaxLen == 3

\* ------------------------------------------------------- program constants
SUBMENU_SUMMARIZE_ID == "NANO_SUMMARIZE"
SUBMENU_REWRITE_ID == "NANO_REWRITE"
SUBMENU_PROOFREAD_ID == "NANO_PROOFREAD"
SUBMENU_CUSTOM_PROMPT_ID == "NANO_CUSTOM"
SUBMENU_TRANSLATE_ID == "NANO_TRANSLATE"
ACTION_SET_API_KEY == "SET_API_KEY"
AI_TASKS_GROUP == "AI_TASKS_GROUP"

\* for (let attempt = 0; attempt < 3; attempt++)
MaxAttempts == 3
\* if (attempt === 2) throw error
FinalAttempt == 2
\* setTimeout(resolve, 1000 * Math.pow(2, attempt))
BaseDelayMs == 1000
BackoffBase == 2

\* let GEMINI_API_KEY = "";  also the falsy value of an absent stored key
NoKey == ""

SummarizePrompt ==
    <<"You are an expert summarizer. Provide the key points from the context as a short, concise, bulleted list using markdown format.">>
RewritePrompt ==
    <<"Rewrite the following text to simplify it for a 5th-grade reading level. Keep the length similar.">>
ProofreadPrompt ==
    <<"Proofread the text provided. First, output the fully corrected text. Second, list all significant changes made (grammar, spelling, syntax) in a bulleted list format.">>

ConfigRequiredTitle == <<"Configuration Required">>
ConfigRequiredText ==
    <<"Please set your Gemini API key using the 'Set Gemini API Key...' menu option before running AI tasks.">>
MalformedMessage == <<"Received an empty or malformed response from the API.">>
MaxRetryMessage == <<"Maximum retry attempts reached.">>
FallbackMessage == <<"API request failed. Check your API key and connection.">>
NetworkMessage == <<"Failed to fetch">>

\* ------------------------------------------------------------ input sets
Tabs == {1, 2}
Keys == {"k1", "k2"}
\* info.selectionText: absent, plain, and with markup
Texts == {<<>>, <<"a">>, <<"<", "b", ">", "a">>}
\* request.customPrompt / request.targetLanguage as they reach the listener
Params == {<<>>, <<"F">>}
MenuIds == {ACTION_SET_API_KEY, AI_TASKS_GROUP, SUBMENU_SUMMARIZE_ID,
            SUBMENU_REWRITE_ID, SUBMENU_PROOFREAD_ID,
            SUBMENU_CUSTOM_PROMPT_ID, SUBMENU_TRANSLATE_ID}
\* What one fetch() can produce: a rejected promise (network error), or a
\* response with response.ok and the value found at
\* candidates[0].content.parts[0].text (<<>> when missing or empty).
Responses ==
    {[netErr |-> TRUE, ok |-> FALSE, status |-> "", text |-> <<>>]} \cup
    {[netErr |-> FALSE, ok |-> o, status |-> IF o THEN "200" ELSE "500",
      text |-> t] : o \in BOOLEAN, t \in {<<>>, <<"T">>}}

VARIABLES
    GEMINI_API_KEY,  \* the in-memory credential of the running worker
    store,           \* chrome.storage.local geminiApiKey (NoKey when absent)
    storageOps,      \* pending chrome.storage.local calls, in issue order
    inv,             \* the executeCloudAiTask invocations, by slot
    ui,              \* per tab: the result modal and the processing modal
    lastSaved        \* apiKey of the most recent saveApiKey message

vars == <<GEMINI_API_KEY, store, storageOps, inv, ui, lastSaved>>

\* ---------------------------------------------------------------- helpers
NoModal == <<>>

NoPayload == [text |-> <<>>, systemInstruction |-> <<>>, temperature |-> ""]

IdleInv ==
    [pc |-> "Idle", caller |-> "", menuItemId |-> "", param |-> <<>>,
     selectedText |-> <<>>, tabId |-> 0, payload |-> NoPayload, apiUrl |-> NoKey, attempt |-> 0,
     calls |-> 0, keysUsed |-> <<>>, waits |-> <<>>, resp |-> <<>>,
     result |-> <<>>, injected |-> <<>>, responded |-> <<>>]

InFlight(r) == r.pc \in {"fetch", "backoff"}
Terminal(r) == r.pc \in {"Success", "Failure"}
Slots == DOMAIN inv
HasFreeSlot == \E i \in Slots : inv[i].pc = "Idle"
FreeSlot == CHOOSE i \in Slots :
    inv[i].pc = "Idle" /\ \A j \in Slots : j < i => inv[j].pc # "Idle"
\* The worker only goes away while nothing keeps it alive.
WorkerIdle == storageOps = <<>> /\ \A i \in Slots : ~InFlight(inv[i])

\* text.replace(/<[^>]*>?/gm, ''): after a '<', everything up to and
\* including the next '>' goes, or everything up to the end when no '>'
\* follows.
RECURSIVE SkipTag(_)
SkipTag(s) ==
    IF s = <<>> THEN <<>>
    ELSE IF Head(s) = ">" THEN Tail(s)
    ELSE SkipTag(Tail(s))

RECURSIVE StripTags(_)
StripTags(s) ==
    IF s = <<>> THEN <<>>
    ELSE IF Head(s) = "<" THEN StripTags(SkipTag(Tail(s)))
    ELSE <<Head(s)>> \o StripTags(Tail(s))

\* Math.pow(2, attempt)
RECURSIVE Pow(_, _)
Pow(b, e) == IF e = 0 THEN 1 ELSE b * Pow(b, e - 1)

BackoffDelayDoubled(attempt) == BaseDelayMs * Pow(BackoffBase, attempt + 1)

BackoffDelay(attempt) == BaseDelayMs * Pow(BackoffBase, attempt)

\* attempt < 3, the loop condition
LoopContinues(attempt) == attempt < MaxAttempts

IsFinalAttemptLate(attempt) == attempt = MaxAttempts

IsFinalAttemptNever(attempt) == FALSE

\* if (attempt === 2) throw error
IsFinalAttempt(attempt) == attempt = FinalAttempt

\* attempt++
NextAttempt(attempt) == attempt + 1

FetchUrlLive(r) == GEMINI_API_KEY

\* the key in the URL of a fetch: apiUrl is a const computed before the loop
FetchUrl(r) == r.apiUrl

\* `HTTP error ${response.status}: ${errorText}`
HttpErrorMessage(r) == <<"HTTP error ", r.status, ": ", "body">>

IsSuccessAnyOk(r) == ~r.netErr /\ r.ok

\* response.ok && generatedText truthy
IsSuccess(r) == ~r.netErr /\ r.ok /\ r.text # <<>>

\* the error the try block throws for a response that is no success
ErrorOf(r) ==
    IF r.netErr THEN NetworkMessage
    ELSE IF ~r.ok THEN HttpErrorMessage(r)
    ELSE MalformedMessage

TranslatePrompt(targetLanguage) ==
    <<"You are an expert translator. Translate the following text strictly into ">>
    \o targetLanguage
    \o <<" and provide only the translated text as the output.">>

\* the systemPrompt runAiTask passes for a menu item
TaskPrompt(menuItemId) ==
    CASE menuItemId = SUBMENU_SUMMARIZE_ID -> SummarizePrompt
      [] menuItemId = SUBMENU_REWRITE_ID -> RewritePrompt
      [] menuItemId = SUBMENU_PROOFREAD_ID -> ProofreadPrompt

\* title of the result modal on success
SuccessTitle(r) ==
    CASE r.caller = "runCustomPrompt" -> <<"Custom Prompt Result">>
      [] r.caller = "runTranslation" -> <<"Translation: ">> \o r.param
      [] r.menuItemId = SUBMENU_SUMMARIZE_ID -> <<"AI Summary (Key Points)">>
      [] r.menuItemId = SUBMENU_REWRITE_ID -> <<"AI Rewrite (Simplified)">>
      [] r.menuItemId = SUBMENU_PROOFREAD_ID -> <<"Proofread Corrections">>

\* title of the result modal in the caller's catch
FailureTitle(r) ==
    CASE r.caller = "runCustomPrompt" -> <<"Prompt Error">>
      [] r.caller = "runTranslation" -> <<"Translation Error">>
      [] r.caller = "runAiTask" -> <<"Cloud AI Error">>

FailureContentGeneric(r, message) ==
    IF r.caller = "runAiTask" THEN <<"Error: ">> \o FallbackMessage ELSE FallbackMessage

\* content of the result modal in the caller's catch
FailureContent(r, message) ==
    IF r.caller = "runAiTask"
    THEN <<"Error: ">> \o (IF message # <<>> THEN message ELSE FallbackMessage)
    ELSE message

\* ------------------------------------------------------------- UI helpers
InjectResultModalKeepFirst(u, tabId, title, content) ==
    IF u[tabId].result # NoModal
    THEN [u EXCEPT ![tabId].processing = NoModal]
    ELSE [u EXCEPT ![tabId] = [result |-> <<title, content>>, processing |-> NoModal]]

\* displayResultModal also removes the processing modal of the tab.
InjectResultModal(u, tabId, title, content) ==
    [u EXCEPT ![tabId] = [result |-> <<title, content>>, processing |-> NoModal]]

InjectProcessingModal(u, tabId, message) ==
    [u EXCEPT ![tabId].processing = message]

HideProcessingModal(u, tabId) ==
    [u EXCEPT ![tabId].processing = NoModal]

\* -------------------------------------------------------------------- Init
\* Fresh install: the script has been evaluated and onInstalled has fired,
\* so the load of the stored key is pending.  n invocation slots.
InitWith(n) ==
    /\ GEMINI_API_KEY = NoKey
    /\ store = NoKey
    /\ storageOps = <<[op |-> "get", value |-> NoKey]>>
    /\ inv = [i \in 1..n |-> IdleInv]
    /\ ui = [t \in Tabs |-> [result |-> NoModal, processing |-> NoModal]]
    /\ lastSaved = NoKey

\* A worker whose key was saved and stored earlier and that is now idle
\* (reached from the fresh install by SaveApiKey and two StorageCompletes).
InitConfigured(n) ==
    /\ GEMINI_API_KEY = "k1"
    /\ store = "k1"
    /\ storageOps = <<>>
    /\ inv = [i \in 1..n |-> IdleInv]
    /\ ui = [t \in Tabs |-> [result |-> NoModal, processing |-> NoModal]]
    /\ lastSaved = "k1"

\* ------------------------------------------------------ executeCloudAiTask
ExecStartTextInPrompt(caller, menuItemId, param, tabId, text, systemPrompt) ==
    LET r0 == [IdleInv EXCEPT
                 !.caller = caller, !.menuItemId = menuItemId,
                 !.param = param, !.tabId = tabId, !.selectedText = text,
                 !.payload = [text |-> <<"Original Text: ">> \o StripTags(text),
                              systemInstruction |-> systemPrompt \o StripTags(text),
                              temperature |-> "0.2"],
                 !.apiUrl = GEMINI_API_KEY]
    IN [r0 EXCEPT !.pc = "fetch", !.calls = 1, !.keysUsed = <<r0.apiUrl>>]

\* Entry of executeCloudAiTask up to the first fetch: the text is stripped,
\* the payload and apiUrl are built, and attempt 0 issues its call.
ExecStart(caller, menuItemId, param, tabId, text, systemPrompt) ==
    LET r0 == [IdleInv EXCEPT
                 !.caller = caller, !.menuItemId = menuItemId,
                 !.param = param, !.tabId = tabId, !.selectedText = text,
                 !.payload = [text |-> <<"Original Text: ">> \o StripTags(text),
                              systemInstruction |-> systemPrompt,
                              temperature |-> "0.2"],
                 !.apiUrl = GEMINI_API_KEY]
    IN [r0 EXCEPT !.pc = "fetch", !.calls = 1, !.keysUsed = <<FetchUrl(r0)>>]

\* The caller's continuation once executeCloudAiTask returns `text`:
\* runAiTask's injectResultModal + finally, or the message handler's
\* .then + .finally.
Resolve(i, r, text) ==
    LET modal == [tabId |-> r.tabId, title |-> SuccessTitle(r), content |-> text]
    IN /\ inv' = [inv EXCEPT ![i] =
                    [r EXCEPT !.pc = "Success", !.result = text,
                              !.injected = Append(@, modal),
                              !.responded =
                                 IF r.caller = "runAiTask" THEN @
                                 ELSE Append(@, "success")]]
       /\ ui' = HideProcessingModal(
                   InjectResultModal(ui, r.tabId, modal.title, modal.content),
                   r.tabId)

\* The caller's continuation once executeCloudAiTask throws `message`:
\* runAiTask's catch + finally, or the message handler's .catch + .finally.
Reject(i, r, message) ==
    LET modal == [tabId |-> r.tabId, title |-> FailureTitle(r),
                  content |-> FailureContent(r, message)]
    IN /\ inv' = [inv EXCEPT ![i] =
                    [r EXCEPT !.pc = "Failure", !.result = message,
                              !.injected = Append(@, modal),
                              !.responded =
                                 IF r.caller = "runAiTask" THEN @
                                 ELSE Append(@, "error")]]
       /\ ui' = HideProcessingModal(
                   InjectResultModal(ui, r.tabId, modal.title, modal.content),
                   r.tabId)

\* The pending fetch of invocation i settles with response resp.
FetchCompletes(i, resp) ==
    /\ inv[i].pc = "fetch"
    /\ LET r == [inv[i] EXCEPT !.resp = <<resp>>]
       IN IF IsSuccess(resp)
          THEN Resolve(i, r, resp.text)
          ELSE IF IsFinalAttempt(r.attempt)
          THEN Reject(i, r, ErrorOf(resp))
          ELSE /\ inv' = [inv EXCEPT ![i] =
                            [r EXCEPT !.pc = "backoff",
                                      !.waits = Append(@, BackoffDelay(r.attempt))]]
               /\ ui' = ui
    /\ UNCHANGED <<GEMINI_API_KEY, store, storageOps, lastSaved>>

\* The backoff timer of invocation i fires: attempt++ and the loop test,
\* then the next fetch, or the throw after the loop.
TimerFires(i) ==
    /\ inv[i].pc = "backoff"
    /\ LET r == [inv[i] EXCEPT !.attempt = NextAttempt(@)]
       IN IF LoopContinues(r.attempt)
          THEN /\ inv' = [inv EXCEPT ![i] =
                            [r EXCEPT !.pc = "fetch", !.calls = @ + 1,
                                      !.resp = <<>>,
                                      !.keysUsed = Append(@, FetchUrl(r))]]
               /\ ui' = ui
          ELSE Reject(i, r, MaxRetryMessage)
    /\ UNCHANGED <<GEMINI_API_KEY, store, storageOps, lastSaved>>

\* ------------------------------------------------------- worker lifecycle
\* chrome.storage.local serves the oldest pending call and runs its
\* callback: the onInstalled load, or the saveApiKey write.
StorageCompletes ==
    /\ storageOps # <<>>
    /\ LET o == Head(storageOps)
       IN IF o.op = "get"
          THEN /\ GEMINI_API_KEY' = IF store # NoKey THEN store ELSE GEMINI_API_KEY
               /\ store' = store
          ELSE /\ store' = o.value
               /\ GEMINI_API_KEY' = GEMINI_API_KEY
    /\ storageOps' = Tail(storageOps)
    /\ UNCHANGED <<inv, ui, lastSaved>>

\* The idle worker is stopped and started again by the next event: the
\* script is evaluated anew, onInstalled does not fire.
Restart ==
    /\ WorkerIdle
    /\ GEMINI_API_KEY' = NoKey
    /\ UNCHANGED <<store, storageOps, inv, ui, lastSaved>>

\* The extension (or the browser) is updated: the script is evaluated anew
\* and onInstalled fires, which issues the load of the stored key.
Update ==
    /\ WorkerIdle
    /\ GEMINI_API_KEY' = NoKey
    /\ storageOps' = <<[op |-> "get", value |-> NoKey]>>
    /\ UNCHANGED <<store, inv, ui, lastSaved>>

\* onMessage, request.action === "saveApiKey"
SaveApiKey(apiKey) ==
    /\ Len(storageOps) < MaxPending
    /\ GEMINI_API_KEY' = apiKey
    /\ storageOps' = Append(storageOps, [op |-> "set", value |-> apiKey])
    /\ lastSaved' = apiKey
    /\ UNCHANGED <<store, inv, ui>>

\* ------------------------------------------------------------- dispatchers
\* contextMenus.onClicked (tab.id is always a real tab id here)
OnClicked(menuItemId, selectedText, tabId) ==
    /\ UNCHANGED <<GEMINI_API_KEY, store, storageOps, lastSaved>>
    /\ \/ \* the API key modal is shown in the page
          /\ menuItemId = ACTION_SET_API_KEY
          /\ UNCHANGED <<inv, ui>>
       \/ \* nothing selected, or the group item itself
          /\ menuItemId # ACTION_SET_API_KEY
          /\ selectedText = <<>> \/ menuItemId = AI_TASKS_GROUP
          /\ UNCHANGED <<inv, ui>>
       \/ \* no key: the configuration modal, and no task
          /\ menuItemId \notin {ACTION_SET_API_KEY, AI_TASKS_GROUP}
          /\ selectedText # <<>>
          /\ GEMINI_API_KEY = NoKey
          /\ ui' = InjectResultModal(ui, tabId, ConfigRequiredTitle, ConfigRequiredText)
          /\ UNCHANGED inv
       \/ \* Custom Prompt / Translate: the input modal is shown in the page
          /\ menuItemId \in {SUBMENU_CUSTOM_PROMPT_ID, SUBMENU_TRANSLATE_ID}
          /\ selectedText # <<>>
          /\ GEMINI_API_KEY # NoKey
          /\ ui' = HideProcessingModal(ui, tabId)
          /\ UNCHANGED inv
       \/ \* runAiTask
          /\ menuItemId \in {SUBMENU_SUMMARIZE_ID, SUBMENU_REWRITE_ID,
                             SUBMENU_PROOFREAD_ID}
          /\ selectedText # <<>>
          /\ GEMINI_API_KEY # NoKey
          /\ HasFreeSlot
          /\ ui' = InjectProcessingModal(ui, tabId, <<"Querying Cloud AI...">>)
          /\ inv' = [inv EXCEPT ![FreeSlot] =
                       ExecStart("runAiTask", menuItemId, <<>>, tabId,
                                 selectedText, TaskPrompt(menuItemId))]

\* onMessage, request.action === "runCustomPrompt"
OnRunCustomPrompt(selectedText, customPrompt, tabId) ==
    /\ HasFreeSlot
    /\ ui' = InjectProcessingModal(ui, tabId, <<"Running Custom Prompt...">>)
    /\ inv' = [inv EXCEPT ![FreeSlot] =
                 ExecStart("runCustomPrompt", "", customPrompt, tabId,
                           selectedText, customPrompt)]
    /\ UNCHANGED <<GEMINI_API_KEY, store, storageOps, lastSaved>>

\* onMessage, request.action === "runTranslation"
OnRunTranslation(selectedText, targetLanguage, tabId) ==
    /\ HasFreeSlot
    /\ ui' = InjectProcessingModal(ui, tabId,
                <<"Translating to ">> \o targetLanguage \o <<"...">>)
    /\ inv' = [inv EXCEPT ![FreeSlot] =
                 ExecStart("runTranslation", "", targetLanguage, tabId,
                           selectedText, TranslatePrompt(targetLanguage))]
    /\ UNCHANGED <<GEMINI_API_KEY, store, storageOps, lastSaved>>

\* ------------------------------------------------------------------- Next
\* The events of the environment over given input sets.
Network(responses) ==
    \/ \E i \in Slots, resp \in responses : FetchCompletes(i, resp)
    \/ \E i \in Slots : TimerFires(i)

Credential(keys) ==
    \/ StorageCompletes
    \/ \E k \in keys : SaveApiKey(k)

Lifecycle ==
    \/ Restart
    \/ Update

Menu(menuIds, texts, tabs) ==
    \E m \in menuIds, t \in texts, tab \in tabs : OnClicked(m, t, tab)

CustomPrompts(texts, params, tabs) ==
    \E t \in texts, p \in params, tab \in tabs : OnRunCustomPrompt(t, p, tab)

Translations(texts, params, tabs) ==
    \E t \in texts, p \in params, tab \in tabs : OnRunTranslation(t, p, tab)

\* Responses without the variety of failures: a network error or a success.
PlainResponses == {r \in Responses : r.netErr \/ IsSuccess(r)}

\* --- Spec: the retry loop under every kind of response.  The key has been
\* saved and stored before; one tab, a menu task and a custom prompt.
Init == InitConfigured(MaxInv)
Next ==
    \/ Network(Responses)
    \/ Menu({SUBMENU_SUMMARIZE_ID}, {<<"a">>}, {1})
    \/ CustomPrompts({<<"a">>}, {<<"F">>}, {1})

Spec == Init /\ [][Next]_vars

\* --- SpecCred: the credential over the worker's life, from a fresh
\* install: saves, the storage callbacks, restarts and updates, with tasks
\* started from the menu and by message.
InitCred == InitWith(MaxCredInv)
NextCred ==
    \/ Network(PlainResponses)
    \/ Credential(Keys)
    \/ Lifecycle
    \/ Menu({SUBMENU_SUMMARIZE_ID}, {<<"a">>}, {1})
    \/ CustomPrompts({<<"a">>}, {<<"F">>}, {1})

SpecCred == InitCred /\ [][NextCred]_vars

\* --- SpecUI: every menu item and message, with and without parameter and
\* selection, on two tabs.
InitUI == InitConfigured(MaxUIInv)
NextUI ==
    \/ Network(PlainResponses)
    \/ Menu(MenuIds, Texts, Tabs)
    \/ CustomPrompts({<<"a">>}, Params, Tabs)
    \/ Translations({<<"a">>}, Params, Tabs)

SpecUI == InitUI /\ [][NextUI]_vars

\* --- SpecSan: the sanitization of every selected text of up to MaxLen
\* characters over '<', '>' and a letter, selected and summarized from the
\* menu.
Alphabet == {"<", ">", "a"}
SanTexts == UNION {[1..k -> Alphabet] : k \in 0..MaxLen}
InitSan == InitConfigured(MaxSanInv)
NextSan ==
    \/ Network(PlainResponses)
    \/ Menu({SUBMENU_SUMMARIZE_ID}, SanTexts, {1})

SpecSan == InitSan /\ [][NextSan]_vars

\* --- SpecFair: Spec, where every pending network call and every backoff
\* timer eventually completes.
SpecFair ==
    /\ Init /\ [][Next]_vars
    /\ \A i \in 1..MaxInv :
          /\ WF_vars(\E resp \in Responses : FetchCompletes(i, resp))
          /\ WF_vars(TimerFires(i))

\* The shape of the state.
TypeOK ==
    /\ GEMINI_API_KEY \in Keys \cup {NoKey}
    /\ store \in Keys \cup {NoKey}
    /\ lastSaved \in Keys \cup {NoKey}
    /\ Len(storageOps) <= MaxPending
    /\ \A n \in 1..Len(storageOps) :
          /\ storageOps[n].op \in {"get", "set"}
          /\ storageOps[n].value \in Keys \cup {NoKey}
    /\ DOMAIN ui = Tabs
    /\ \A i \in Slots :
          /\ inv[i].pc \in {"Idle", "fetch", "backoff", "Success", "Failure"}
          /\ inv[i].caller \in {"", "runAiTask", "runCustomPrompt", "runTranslation"}
          /\ inv[i].pc # "Idle" => inv[i].tabId \in Tabs
          /\ inv[i].apiUrl \in Keys \cup {NoKey}
          /\ inv[i].attempt \in 0..MaxAttempts
          /\ Len(inv[i].resp) <= 1
          /\ \A n \in 1..Len(inv[i].resp) : inv[i].resp[n] \in Responses

\* ------------------------------------------------------------------ claims
Malformed(resp) == ~resp.netErr /\ resp.ok /\ resp.text = <<>>
Started(i) == inv[i].pc = "Idle" /\ inv'[i].pc # "Idle"
ConfigModal == <<ConfigRequiredTitle, ConfigRequiredText>>
\* a step that puts the "Configuration Required" modal on a tab
ReportedMissing ==
    \E t \in Tabs : ui'[t].result = ConfigModal /\ ui[t].result # ConfigModal

\* C1: an invocation whose attempts all fail makes exactly 3 network calls,
\* never a 4th (no wait follows the 3rd failure), and ends in Failure with
\* the error of its 3rd attempt, not the generic "Maximum retry attempts
\* reached." error.
C1_ThreeCallsThenLastError ==
    \A i \in Slots :
        LET r == inv[i] IN
        /\ r.calls <= 3
        /\ r.pc = "backoff" => r.calls < 3
        /\ r.pc = "Failure" =>
              /\ r.calls = 3
              /\ Len(r.resp) = 1
              /\ r.resp[1].netErr => r.result = <<"Failed to fetch">>
              /\ (~r.resp[1].netErr /\ ~r.resp[1].ok) =>
                     r.result = <<"HTTP error ", "500", ": ", "body">>
              /\ Malformed(r.resp[1]) =>
                     r.result = <<"Received an empty or malformed response from the API.">>
              /\ r.result # <<"Maximum retry attempts reached.">>

\* C1 witness: an invocation has failed after 3 calls, the last one a 2xx
\* body without generated text.
C1_Witness ==
    \E i \in Slots :
        /\ inv[i].pc = "Failure" /\ inv[i].calls = 3
        /\ Malformed(inv[i].resp[1])

\* C2: the waits of an invocation are 1000ms after the 1st failure and
\* 2000ms after the 2nd; none before attempt 1, none after a success or
\* after the 3rd failure.
C2_BackoffWaits ==
    \A i \in Slots :
        LET r == inv[i]
            done == IF r.pc = "backoff" THEN r.calls
                    ELSE IF r.pc = "Idle" THEN 0 ELSE r.calls - 1
        IN /\ done <= 2
           /\ r.waits = SubSeq(<<1000, 2000>>, 1, done)

\* C2 witness: two failures then a success, waits 1000ms and 2000ms.
C2_Witness ==
    \E i \in Slots :
        /\ inv[i].pc = "Success" /\ inv[i].calls = 3
        /\ inv[i].waits = <<1000, 2000>>

\* C3: a response ends the invocation with Success iff it is 2xx with a
\* non-empty generated text; the invocation then returns that text and
\* does nothing more.  Any other response, a 2xx without text included, is
\* a failed attempt: a wait and a retry while fewer than 3 calls were made,
\* Failure otherwise.
C3_SuccessIffTextInOkResponse ==
    [][\A i \in Slots :
          LET r == inv[i]
              q == inv'[i]
          IN /\ (r.pc = "fetch" /\ q.pc # "fetch") =>
                  /\ Len(q.resp) = 1
                  /\ q.pc = "Success" <=>
                        (~q.resp[1].netErr /\ q.resp[1].ok /\ q.resp[1].text # <<>>)
                  /\ q.pc = "Success" => q.result = q.resp[1].text
                  /\ q.pc # "Success" =>
                        q.pc = IF r.calls < 3 THEN "backoff" ELSE "Failure"
             /\ r.pc = "Success" => q = r]_vars

\* C3 witness: one invocation has succeeded while another waits after a
\* 2xx response without generated text.
C3_Witness ==
    \E i, j \in Slots :
        /\ inv[i].pc = "Success" /\ inv[i].result = <<"T">>
        /\ inv[j].pc = "backoff" /\ Malformed(inv[j].resp[1])

\* C4: with an empty in-memory credential no submit issues a network call:
\* every invocation that has made a call captured a non-empty key.
C4_NoCallWithoutCredential ==
    \A i \in Slots : inv[i].calls > 0 => inv[i].apiUrl # NoKey

\* C5: a runCustomPrompt / runTranslation request with an empty parameter
\* issues no network call.
C5_NoCallWithoutParameter ==
    \A i \in Slots :
        (inv[i].caller \in {"runCustomPrompt", "runTranslation"}
            /\ inv[i].param = <<>>) => inv[i].calls = 0

\* C6: whenever a submit is handled while the store holds a non-empty key
\* and no storage callback is pending, the in-memory credential is the
\* stored key (it was loaded when the worker started).
C6_StoredKeyLoadedBeforeSubmit ==
    [][((\E i \in Slots : Started(i)) \/ ReportedMissing)
          /\ store # NoKey /\ storageOps = <<>>
       => GEMINI_API_KEY = store]_vars

\* C7: once saveApiKey has run with key k, every submit before the next
\* save builds its request URL with k (and is not turned away for a
\* missing key).
C7_NextSubmitUsesSavedKey ==
    [][lastSaved # NoKey =>
          /\ \A i \in Slots : Started(i) => inv'[i].apiUrl = lastSaved
          /\ ~ReportedMissing]_vars

\* C8: every attempt of an invocation uses the credential read when the
\* invocation started, whatever is saved while it is in flight.
C8_ReadSnapshot ==
    [][\A i \in Slots :
          LET r == inv[i]
              q == inv'[i]
          IN /\ Started(i) => q.apiUrl = GEMINI_API_KEY
             /\ r.pc # "Idle" => q.apiUrl = r.apiUrl
             /\ Len(q.keysUsed) = q.calls
             /\ \A n \in 1..Len(q.keysUsed) : q.keysUsed[n] = q.apiUrl]_vars

\* C8 witness: the 3rd attempt of an invocation that started with k1 is in
\* flight after the credential was replaced by k2.
C8_Witness ==
    \E i \in Slots :
        /\ inv[i].pc = "fetch" /\ inv[i].calls = 3
        /\ inv[i].apiUrl = "k1" /\ GEMINI_API_KEY = "k2"
        /\ inv[i].keysUsed = <<"k1", "k1", "k1">>

\* C9: every invocation that has begun eventually reaches Success or
\* Failure; its attempt counter n = attempt + 1 stays in 1..3 and never
\* decreases, and nothing leaves Success or Failure.
C9_RunsToTerminalState ==
    /\ \A i \in 1..MaxInv : [](inv[i].pc # "Idle" => <>Terminal(inv[i]))
    /\ [][\A i \in Slots :
             LET r == inv[i]
                 q == inv'[i]
             IN /\ q.pc # "Idle" => q.attempt + 1 \in 1..3
                /\ q.attempt >= r.attempt
                /\ Terminal(r) => q.pc = r.pc]_vars

\* C9 witness: an invocation has reached Failure at n = 3 while another has
\* reached Success.
C9_Witness ==
    \E i, j \in Slots :
        /\ inv[i].pc = "Failure" /\ inv[i].attempt + 1 = 3
        /\ inv[j].pc = "Success"

\* What the modal of a failed invocation carries: the failure message, after
\* the prefix "Error: " when the task was started from the menu (runAiTask).
ShownFailure(q) ==
    IF q.caller = "runAiTask" THEN <<"Error: ">> \o q.result ELSE q.result

Failed(i) == ~Terminal(inv[i]) /\ inv'[i].pc = "Failure"

\* C10 (as amended): every invocation that ends in Failure injects exactly
\* one result modal, into its own tab only, whose content is the failure
\* message - prefixed with "Error: " on the runAiTask path - and the
\* processing modal of that tab is hidden afterwards.
C10_FailureShown ==
    [][\A i \in Slots : Failed(i) =>
          LET q == inv'[i] IN
          /\ Len(q.injected) = 1
          /\ q.injected[1].tabId = q.tabId
          /\ q.injected[1].content = ShownFailure(q)
          /\ ui'[q.tabId].result = <<q.injected[1].title, ShownFailure(q)>>
          /\ ui'[q.tabId].processing = NoModal
          /\ \A t \in Tabs \ {q.tabId} : ui'[t] = ui[t]]_vars

\* C10 (as claimed): the content of the modal is exactly the failure
\* message on every path.
C10_FailureShownVerbatim ==
    [][\A i \in Slots : Failed(i) =>
          /\ Len(inv'[i].injected) = 1
          /\ ui'[inv'[i].tabId].result[2] = inv'[i].result
          /\ ui'[inv'[i].tabId].processing = NoModal]_vars

\* C10 witness: a menu task (runAiTask) started on tab 2 has failed and
\* tab 2 shows "Error: " and its message, with no processing modal, while
\* tab 1 shows nothing.
C10_Witness ==
    \E i \in Slots :
        /\ inv[i].pc = "Failure" /\ inv[i].caller = "runAiTask"
        /\ inv[i].tabId = 2 /\ inv[i].result = <<"Failed to fetch">>
        /\ ui[2] = [result |-> <<<<"Cloud AI Error">>,
                                 <<"Error: ", "Failed to fetch">>>>,
                    processing |-> NoModal]
        /\ ui[1].result = NoModal

\* C11: invocations are independent and never cancelled.  A step changes at
\* most one invocation; an invocation in flight keeps its request and its
\* own count of calls whatever the other one does, and ends only by its own
\* response or timer; when it ends, after exactly its own attempts, its
\* result modal is put on its tab, over whatever the tab showed.
C11_IndependentInvocations ==
    [][\A i \in Slots :
          LET r == inv[i]
              q == inv'[i]
          IN /\ q # r => \A j \in Slots \ {i} : inv'[j] = inv[j]
             /\ InFlight(r) =>
                   /\ q.pc # "Idle"
                   /\ <<q.caller, q.menuItemId, q.param, q.selectedText,
                        q.tabId, q.payload, q.apiUrl>>
                      = <<r.caller, r.menuItemId, r.param, r.selectedText,
                          r.tabId, r.payload, r.apiUrl>>
                   /\ q.calls \in {r.calls, r.calls + 1}
                   /\ q.pc = "Failure" => q.calls = 3
             /\ (InFlight(r) /\ Terminal(q)) =>
                   /\ Len(q.injected) = 1
                   /\ ui'[q.tabId].result =
                         <<q.injected[1].title, q.injected[1].content>>
                   /\ q.injected[1].content =
                         IF q.pc = "Success" THEN q.result ELSE ShownFailure(q)
             /\ Terminal(r) => q = r]_vars

\* C11 witness: on one tab the older invocation (slot 1) failed after its 3
\* calls and the newer one (slot 2) succeeded at its 1st call; both results
\* were injected and the tab shows the result of the older request, so the
\* older one ended after the newer one had started and ended.
C11_Witness ==
    /\ DOMAIN inv = 1..MaxInv
    /\ inv[1].pc = "Failure" /\ inv[1].calls = 3
    /\ inv[2].pc = "Success" /\ inv[2].calls = 1
    /\ inv[1].tabId = inv[2].tabId
    /\ Len(inv[1].injected) = 1 /\ Len(inv[2].injected) = 1
    /\ inv[1].injected[1].content # inv[2].injected[1].content
    /\ ui[inv[1].tabId].result =
          <<inv[1].injected[1].title, inv[1].injected[1].content>>

\* What is left of s when every complete tag - a '<', the characters up to
\* the next '>', and that '>' - is removed and every other character kept.
RECURSIVE AfterClose(_)
AfterClose(s) == IF Head(s) = ">" THEN Tail(s) ELSE AfterClose(Tail(s))

RECURSIVE StripCompleteTags(_)
StripCompleteTags(s) ==
    IF s = <<>> THEN <<>>
    ELSE IF Head(s) = "<" /\ \E k \in 2..Len(s) : s[k] = ">"
    THEN StripCompleteTags(AfterClose(Tail(s)))
    ELSE <<Head(s)>> \o StripCompleteTags(Tail(s))

\* C12: the text sent to the model is the selected text without its
\* complete tags; no character outside a complete '<...>' tag is dropped,
\* the text after a '<' that is never closed included.
C12_OnlyCompleteTagsRemoved ==
    \A i \in Slots :
        inv[i].pc # "Idle" =>
            inv[i].payload.text =
                <<"Original Text: ">> \o StripCompleteTags(inv[i].selectedText)

\* C13: the instruction of the outbound query depends on the action and the
\* parameter only: the fixed template of Summarize, Rewrite or Proofread
\* whatever the selected text, and for a custom prompt exactly the string
\* the caller supplied.
C13_InstructionFromActionAndParameter ==
    /\ \A i \in Slots :
          LET r == inv[i] IN
          /\ (r.caller = "runAiTask" /\ r.menuItemId = SUBMENU_SUMMARIZE_ID) =>
                r.payload.systemInstruction = SummarizePrompt
          /\ (r.caller = "runAiTask" /\ r.menuItemId = SUBMENU_REWRITE_ID) =>
                r.payload.systemInstruction = RewritePrompt
          /\ (r.caller = "runAiTask" /\ r.menuItemId = SUBMENU_PROOFREAD_ID) =>
                r.payload.systemInstruction = ProofreadPrompt
          /\ r.caller = "runCustomPrompt" =>
                r.payload.systemInstruction = r.param
    /\ \A i, j \in Slots :
          (/\ inv[i].pc # "Idle" /\ inv[j].pc # "Idle"
           /\ inv[i].caller = inv[j].caller
           /\ inv[i].menuItemId = inv[j].menuItemId
           /\ inv[i].param = inv[j].param) =>
             inv[i].payload.systemInstruction = inv[j].payload.systemInstruction

\* C13 witness: Rewrite was started on a selected text that holds markup,
\* and its instruction is the Rewrite template.
C13_Witness ==
    \E i \in Slots :
        /\ inv[i].caller = "runAiTask"
        /\ inv[i].menuItemId = SUBMENU_REWRITE_ID
        /\ inv[i].selectedText = <<"<", "b", ">", "a">>
        /\ inv[i].payload.text = <<"Original Text: ", "a">>
        /\ inv[i].payload.systemInstruction = RewritePrompt

\* C14: once no storage callback is pending, a credential held in memory is
\* the stored credential: the load issued by onInstalled, arriving late,
\* never puts an older stored key over the key the user has just saved.
\* (A memory left empty by a plain restart is the matter of C6 and is not
\* counted here.)
C14_MemoryAgreesWithStore ==
    (storageOps = <<>> /\ GEMINI_API_KEY # NoKey) => GEMINI_API_KEY = store

====
